---- MODULE Spec2Model ----
(***************************************************************************)
(* Model of dolomite-engine's auxiliary-loss relay and loss combination:   *)
(*   - CausalLMMoEModelMixin_TP.forward   (hf_models/mixins/moe_TP/main.py)*)
(*   - ModelWrapperForPretraining         (model_wrapper/pretraining.py)   *)
(*   - PaddingFreeSBAttention.forward     (stickbreaking_attention.py)     *)
(* One rank (process) per pipeline stage; every rank owns a process-local  *)
(* auxiliary-loss accumulator.  A forward call runs to completion on its   *)
(* rank (single-threaded process), so one call is one action; calls of     *)
(* different ranks interleave freely.                                      *)
(***************************************************************************)
EXTENDS Integers, Sequences, FiniteSets, TLC

\* ------------------------------------------------------------------ bounds
MaxStages == 3          \* pipeline stages S range over 1..MaxStages
MaxMicroBatches == 2    \* micro-batches fed to the first stage
MaxLayers == 1          \* MoE layers of one stage (each adds one scalar)
MaxPending == 2         \* cap on a total left in the accumulator before get_loss
MaxTokens == 7          \* tokens of one packed batch
MaxSegments == 2        \* sub-sequences of one packed batch

AuxVals == {0, 1}       \* a layer's auxiliary loss
CoefVals == {0, 1, 2}   \* router_aux_loss_coef (scaled to integers)
CeVals == {2, 3}        \* cross-entropy sums
MultVals == {1, 2}      \* lm_loss_multiplier
GradVals == {1, 2}      \* upstream gradients
CacheVals == {7}        \* a genuine cache object handed in without pipelining

\* Python's None / an optional value
None == << >>
Some(v) == <<v>>

RECURSIVE SumSeq(_)
SumSeq(s) == IF s = << >> THEN 0 ELSE Head(s) + SumSeq(Tail(s))

\* every sequence over AuxVals of length 0..MaxLayers
LayerSeqs == UNION {[1..n -> AuxVals] : n \in 0..MaxLayers}

\* ------------------------------------------------ auxiliary-loss accumulator
\* The accumulator of one rank during one call: acc is the global _AUX_LOSS,
\* log records the additions of this call, reads the values drained in it.
NewCall(acc) == [acc |-> acc, log |-> << >>, reads |-> << >>]

\* add(value): adds a scalar contribution
add_aux_loss(st, v) == [st EXCEPT !.acc = @ + v, !.log = Append(@, v)]

\* drain(): returns the current total and resets it to zero
get_aux_loss(st) == [st EXCEPT !.acc = 0, !.reads = Append(@, st.acc)]

\* the value the latest get_aux_loss() returned
Drained(st) == st.reads[Len(st.reads)]

\* the transformer's layers, run in sequence: MoE layer i adds ts[i]
RECURSIVE transformer(_, _)
transformer(st, ts) ==
    IF ts = << >> THEN st ELSE transformer(add_aux_loss(st, Head(ts)), Tail(ts))

\* ------------------------------------------ CausalLMMoEModelMixin_TP.forward
\* faulty variant: the slot is read as the relayed scalar and still handed on as cache
carried_state_kept(pp, past_key_values) ==
    IF pp THEN [prev_aux_loss |-> past_key_values, past_key_values |-> past_key_values]
          ELSE [prev_aux_loss |-> None, past_key_values |-> past_key_values]

\* main.py 30-32: with pipeline parallelism the slot is the relayed scalar
carried_state(pp, past_key_values) ==
    IF pp THEN [prev_aux_loss |-> past_key_values, past_key_values |-> None]
          ELSE [prev_aux_loss |-> None, past_key_values |-> past_key_values]

\* faulty variant: the relayed scalar is never added
relay_add_dropped(pp, first, prev_aux_loss, st) == st

\* main.py 77-78: non-first stages add the relayed scalar
relay_add(pp, first, prev_aux_loss, st) ==
    IF pp /\ ~first THEN add_aux_loss(st, prev_aux_loss[1]) ELSE st

\* faulty variant: the accumulator is read before the relayed scalar is added
forward_tail_swapped(pp, first, prev_aux_loss, st) ==
    relay_add(pp, first, prev_aux_loss, get_aux_loss(st))

\* faulty variant: the total is read off the global without draining it
forward_tail_peek(pp, first, prev_aux_loss, st) ==
    LET st1 == relay_add(pp, first, prev_aux_loss, st)
    IN [st1 EXCEPT !.reads = Append(@, st1.acc)]

\* main.py 77-85: relay, then read the accumulator
forward_tail(pp, first, prev_aux_loss, st) ==
    get_aux_loss(relay_add(pp, first, prev_aux_loss, st))

\* main.py 94-96: the loss combined inside the model when labels are given
forward_loss(loss, aux_loss, coef) ==
    IF loss # None /\ aux_loss # 0 THEN Some(loss[1] + coef * aux_loss) ELSE loss

\* faulty variant: every pipeline stage returns its hidden state
stage_output_hidden(pp, last, aux_loss, loss, coef) ==
    IF pp
    THEN [kind |-> "tuple", first |-> "last_hidden_state", aux |-> Some(aux_loss),
          loss |-> None, lm_loss |-> None]
    ELSE [kind |-> "MoeCausalLMOutputWithPast", first |-> "logits", aux |-> None,
          loss |-> forward_loss(loss, aux_loss, coef), lm_loss |-> None]

\* main.py 87-104: what the model returns
stage_output(pp, last, aux_loss, loss, coef) ==
    IF pp
    THEN IF last
         THEN [kind |-> "tuple", first |-> "lm_logits", aux |-> Some(aux_loss),
               loss |-> None, lm_loss |-> None]
         ELSE [kind |-> "tuple", first |-> "last_hidden_state", aux |-> Some(aux_loss),
               loss |-> None, lm_loss |-> None]
    ELSE [kind |-> "MoeCausalLMOutputWithPast", first |-> "logits", aux |-> None,
          loss |-> forward_loss(loss, aux_loss, coef), lm_loss |-> None]

\* main.py 12-106: loss is the model's own language-modeling loss
\* (None when no labels are passed, as in the pretraining wrapper)
model_forward(pp, first, last, past_key_values, ts, loss, coef, st0) ==
    LET cs == carried_state(pp, past_key_values)
        st1 == transformer(st0, ts)
        st2 == forward_tail(pp, first, cs.prev_aux_loss, st1)
    IN [st |-> st2,
        xfCache |-> cs.past_key_values,
        addedPrev |-> Len(st2.log) > Len(st1.log),
        out |-> stage_output(pp, last, Drained(st2), loss, coef)]

\* ------------------------------------------------ ModelWrapperForPretraining
\* faulty variant: the coefficient is left out of the sum
F_forward_unscaled(lm_loss, aux_loss, coef) == lm_loss + aux_loss

\* pretraining.py 288-292: _F.forward
F_forward(lm_loss, aux_loss, coef) == lm_loss + coef * aux_loss

\* faulty variant: the auxiliary gradient is not scaled
F_backward_unscaled(coef, grad_output) == [lm_loss |-> grad_output, aux_loss |-> grad_output]

\* pretraining.py 294-297: _F.backward, gradients for (lm_loss, aux_loss)
F_backward(coef, grad_output) == [lm_loss |-> grad_output, aux_loss |-> coef * grad_output]

\* pretraining.py 137-152: combination of the two losses
combine(lm_loss, aux_loss, coef) ==
    IF aux_loss = 0
    THEN [kind |-> "dict", first |-> "loss", aux |-> None,
          loss |-> Some(lm_loss), lm_loss |-> None]
    ELSE [kind |-> "dict", first |-> "loss", aux |-> Some(aux_loss),
          loss |-> Some(F_forward(lm_loss, aux_loss, coef)), lm_loss |-> Some(lm_loss)]

\* gradients of the returned loss for upstream gradient g: _F.backward when _F
\* was applied, otherwise loss is lm_loss itself and aux_loss is not in the graph
combine_backward(aux_loss, coef, g) ==
    IF aux_loss = 0 THEN [lm_loss |-> g, aux_loss |-> 0] ELSE F_backward(coef, g)

\* main.py 94-96 differentiated: gradients of the model's own combined loss
forward_loss_backward(loss, aux_loss, coef, g) ==
    IF loss # None /\ aux_loss # 0
    THEN [lm_loss |-> g, aux_loss |-> coef * g]
    ELSE [lm_loss |-> g, aux_loss |-> 0]

\* pretraining.py 119-152: get_loss drains the accumulator itself
get_loss(st, ce, mult, coef) ==
    LET st1 == get_aux_loss(st)
        lm_loss == ce * mult
    IN [st |-> st1, out |-> combine(lm_loss, Drained(st1), coef)]

\* pretraining.py 174-219 (215-217): prev_aux_loss travels in past_key_values
prepare_model_inputs(prev_aux_loss) == [past_key_values |-> prev_aux_loss]

\* pretraining.py 90-117: ModelWrapperForPretraining.forward
wrapper_forward(pp, first, last, prev_aux_loss, ts, ce, mult, coef, st0) ==
    LET batch == prepare_model_inputs(prev_aux_loss)
        m == model_forward(pp, first, last, batch.past_key_values, ts, None, coef, st0)
    IN IF ~pp
       THEN LET l == get_loss(m.st, ce, mult, coef)
            IN [m EXCEPT !.st = l.st, !.out = l.out]
       ELSE m

\* ------------------------------------------------- stick-breaking attention
\* Exact arithmetic on a grid: a token's projected query, key and value are
\* small integers, a score is q_i * k_j (scale 1), and the sigmoid of a score
\* s in {-1, 1} is (s + 2) / 4, so that sigmoid(-s) = 1 - sigmoid(s).  Every
\* weight of a call over T tokens is kept as its numerator over 4^T.
Projected == {[q |-> 1, k |-> 1, v |-> 1], [q |-> -1, k |-> 1, v |-> 2]}

SigNum(s) == s + 2

RECURSIVE Pow4(_)
Pow4(n) == IF n = 0 THEN 1 ELSE 4 * Pow4(n - 1)

\* 4^(hi-lo+1) * prod_{m = lo..hi} (1 - sigmoid(q_i * k_m))
RECURSIVE BreakProd(_, _, _, _)
BreakProd(qkv, i, lo, hi) ==
    IF lo > hi THEN 1
    ELSE (4 - SigNum(qkv[i].q * qkv[lo].k)) * BreakProd(qkv, i, lo + 1, hi)

\* the sub-sequence (1-based) of token i (0-based) under the offsets cu
SegOf(cu, i) == CHOOSE s \in 1..(Len(cu) - 1) : cu[s] <= i /\ i < cu[s + 1]

RECURSIVE SumTo(_, _)
SumTo(f, n) == IF n < 0 THEN 0 ELSE f[n] + SumTo(f, n - 1)

\* sb_attn_varlen(q, k, v, inv_temp, cu_seqlens, max_seqlens): per
\* sub-sequence, att_ij = exp(z_ij + sum_{m=j+1..i} beta_im) for the keys j <= i
\* of the query's own sub-sequence, O_i = sum_j att_ij v_j, R_i = 1 - sum_j att_ij
sb_attn_varlen(qkv, T, cu_seqlens, max_seqlens) ==
    LET att == [i \in 0..(T - 1) |-> [j \in 0..(T - 1) |->
                   IF cu_seqlens[SegOf(cu_seqlens, i)] <= j /\ j <= i
                   THEN SigNum(qkv[i].q * qkv[j].k) * BreakProd(qkv, i, j + 1, i)
                        * Pow4(T - (i - j + 1))
                   ELSE 0]]
    IN [att |-> att,
        out |-> [i \in 0..(T - 1) |->
                    SumTo([j \in 0..(T - 1) |-> att[i][j] * qkv[j].v], T - 1)],
        rem |-> [i \in 0..(T - 1) |-> Pow4(T) - SumTo(att[i], T - 1)]]

\* faulty variant: the offsets of the batch are not handed on: one sequence
padding_free_forward_unsegmented(qkv, T, cu_seqlens, max_seqlen, sb_remainder, head_bias) ==
    LET r == sb_attn_varlen(qkv, T, <<0, T>>, max_seqlen)
    IN [att |-> r.att, rem |-> r.rem,
        out |-> [i \in 0..(T - 1) |->
                    IF sb_remainder THEN r.out[i] + r.rem[i] * head_bias ELSE r.out[i]]]

\* stickbreaking_attention.py 137-171: PaddingFreeSBAttention.forward, up to
\* the per-token normalisation and output projection
padding_free_forward(qkv, T, cu_seqlens, max_seqlen, sb_remainder, head_bias) ==
    LET r == sb_attn_varlen(qkv, T, cu_seqlens, max_seqlen)
    IN [att |-> r.att, rem |-> r.rem,
        out |-> [i \in 0..(T - 1) |->
                    IF sb_remainder THEN r.out[i] + r.rem[i] * head_bias ELSE r.out[i]]]

\* --------------------------------------- dense attention and the decode step
MaxDecode == 3

\* projected tokens of the dense path: the key varies as well as the query
DecodeTokens == [q : {-1, 1}, k : {-1, 1}, v : {1, 2}]

\* 1 / sqrt(head_dim) for heads of one dimension
softmax_scale == 1

Dtypes == {"bfloat16", "float32"}

\* the dtype of the result of an operation on tensors of dtypes a and b
promote(a, b) == IF a = b THEN a ELSE "float32"

\* tensor.float()
to_float(dtype) == "float32"

\* faulty variant: the conversion is left out
to_dtype_left_out(dtype, target) == dtype

\* tensor.to(target)
to_dtype(dtype, target) == target

\* a logarithm on the grid: [n3, n4] stands for ln(3^n3 / 4^n4)
LogAdd(a, b) == [n3 |-> a.n3 + b.n3, n4 |-> a.n4 + b.n4]
LogSub(a, b) == [n3 |-> a.n3 - b.n3, n4 |-> a.n4 - b.n4]

\* F.logsigmoid(s): ln(3/4) for s = 1, ln(1/4) for s = -1
logsigmoid(s) == [n3 |-> IF SigNum(s) = 3 THEN 1 ELSE 0, n4 |-> 1]

RECURSIVE Pow3(_)
Pow3(n) == IF n = 0 THEN 1 ELSE 3 * Pow3(n - 1)

\* exp of a logarithm of the grid, as a numerator over 4^T
exp_num(l, T) == Pow3(l.n3) * Pow4(T - l.n4)

\* t.flip(-1)
flip(t) == [x \in 1..Len(t) |-> t[Len(t) + 1 - x]]

\* t.cumsum(dim=-1) of logarithms
RECURSIVE cumsum(_)
cumsum(t) ==
    IF Len(t) = 0 THEN << >>
    ELSE IF Len(t) = 1 THEN <<t[1]>>
    ELSE LET c == cumsum(SubSeq(t, 1, Len(t) - 1))
         IN Append(c, LogAdd(c[Len(c)], t[Len(t)]))

\* faulty variant: the terms of the later keys are not added
log_att_of_z_only(log_z, re_cum_log_beta) == log_z

\* log_att = log_z + re_cum_log_beta
log_att_of(log_z, re_cum_log_beta) ==
    [j \in 1..Len(log_z) |-> LogAdd(log_z[j], re_cum_log_beta[j])]

\* faulty variant: the reverse cumulative sum keeps the key's own term
re_cum_inclusive(log_beta) == flip(cumsum(flip(log_beta)))

\* log_beta.flip(-1).cumsum(dim=-1).flip(-1) - log_beta
re_cum(log_beta) ==
    LET c == flip(cumsum(flip(log_beta)))
    IN [j \in 1..Len(log_beta) |-> LogSub(c[j], log_beta[j])]

\* faulty variant: the number of queries is not asserted
one_query_unchecked(q) == TRUE

\* assert q.size(2) == 1
one_query(q) == Len(q) = 1

NoDtypes == [q |-> "", k |-> "", logits |-> "", log_z |-> "", log_beta |-> "",
             re_cum_log_beta |-> "", log_att |-> "", att |-> "", att_sum |-> "",
             out |-> "", rem |-> ""]

NoResult == [path |-> "none", aborted |-> "", T |-> 0, att |-> << >>, rem |-> << >>,
             out |-> << >>, dtypes |-> NoDtypes]

\* decoding_stickbreaking(q, k, v, scale) on one head: q, k, v are the
\* sequences of the query, key and value entries, of dtype original_dtype.
\* Weights, output and remainder are numerators over 4^T, T = Len(k).
decoding_stickbreaking(q, k, v, scale, original_dtype) ==
    IF ~one_query(q)
    THEN [NoResult EXCEPT !.path = "decoding_stickbreaking", !.aborted = "q.size(2) == 1"]
    ELSE LET T == Len(k)
             keys == SubSeq(k, 1, T - 1)
             vals == SubSeq(v, 1, T - 1)
             logits == [j \in 1..(T - 1) |-> q[1] * keys[j] * scale]
             log_z == [j \in 1..(T - 1) |-> logsigmoid(logits[j])]
             log_beta == [j \in 1..(T - 1) |-> logsigmoid(-logits[j])]
             re_cum_log_beta == re_cum(log_beta)
             log_att == log_att_of(log_z, re_cum_log_beta)
             att == [j \in 1..(T - 1) |-> exp_num(log_att[j], T)]
             d_q == to_float(original_dtype)
             d_k == to_float(original_dtype)
             d_logits == promote(d_q, d_k)
             d_log_z == to_dtype(d_logits, original_dtype)
             d_log_beta == to_dtype(d_logits, original_dtype)
             d_re_cum == promote(d_log_beta, d_log_beta)
             d_log_att == promote(d_log_z, d_re_cum)
             d_att == d_log_att
             d_out == promote(d_att, original_dtype)
         IN [path |-> "decoding_stickbreaking", aborted |-> "", T |-> T,
             att |-> <<att>>,
             out |-> <<SumSeq([j \in 1..(T - 1) |-> att[j] * vals[j]])>>,
             rem |-> <<Pow4(T) - SumSeq(att)>>,
             dtypes |-> [q |-> d_q, k |-> d_k, logits |-> d_logits, log_z |-> d_log_z,
                         log_beta |-> d_log_beta, re_cum_log_beta |-> d_re_cum,
                         log_att |-> d_log_att, att |-> d_att, att_sum |-> d_att,
                         out |-> d_out, rem |-> d_att]]

\* sb_attn(q, k, v, inv_temp) on one head: the full-sequence kernel, one
\* sequence of T tokens
sb_attn(q, k, v, inv_temp) ==
    LET T == Len(q)
        r == sb_attn_varlen([i \in 0..(T - 1) |-> [q |-> q[i + 1], k |-> k[i + 1],
                                                   v |-> v[i + 1]]],
                            T, <<0, T>>, T)
    IN [NoResult EXCEPT !.path = "sb_attn", !.T = T,
            !.att = [i \in 1..T |-> [j \in 1..T |-> r.att[i - 1][j - 1]]],
            !.out = [i \in 1..T |-> r.out[i - 1]],
            !.rem = [i \in 1..T |-> r.rem[i - 1]]]

\* past_key_values.update(key, value, layer_idx): the new keys and values
\* are appended to the cached ones, the whole is returned
cache_update(cache, new) == cache \o [x \in 1..Len(new) |-> [k |-> new[x].k, v |-> new[x].v]]

\* SBAttention.forward on the new tokens, up to the normalisation and the
\* output projection: [cache, res]
sb_forward(past_key_values, new, sb_remainder, head_bias, dtype) ==
    IF past_key_values = None
    THEN [cache |-> None,
          res |-> [NoResult EXCEPT !.aborted = "past_key_values is not None"]]
    ELSE LET cache == cache_update(past_key_values[1], new)
             query == [x \in 1..Len(new) |-> new[x].q]
             key == [x \in 1..Len(cache) |-> cache[x].k]
             value == [x \in 1..Len(cache) |-> cache[x].v]
             r == IF Len(query) = Len(key)
                  THEN sb_attn(query, key, value, softmax_scale)
                  ELSE decoding_stickbreaking(query, key, value, softmax_scale, dtype)
         IN [cache |-> Some(cache),
             res |-> IF r.aborted # "" THEN r
                     ELSE [r EXCEPT !.out = [x \in 1..Len(r.out) |->
                                               IF sb_remainder
                                               THEN r.out[x] + r.rem[x] * head_bias
                                               ELSE r.out[x]]]]

\* ------------------------------------------------ query, key and value heads
MaxKVHeads == 2
MaxGroup == 2

\* attention_head_type with the head counts it allows: mha has as many
\* key/value heads as query heads, mqa has one, gqa has num_heads a multiple
\* of num_key_value_heads
HeadConfigs ==
    {c \in [attention_head_type : {"mha", "gqa", "mqa"},
            num_heads : 1..(MaxKVHeads * MaxGroup),
            num_key_value_heads : 1..(MaxKVHeads * MaxGroup)] :
        \/ c.attention_head_type = "mha" /\ c.num_key_value_heads = c.num_heads
        \/ c.attention_head_type = "mqa" /\ c.num_key_value_heads = 1
        \/ /\ c.attention_head_type = "gqa"
           /\ c.num_key_value_heads <= MaxKVHeads
           /\ c.num_heads % c.num_key_value_heads = 0
           /\ c.num_heads \div c.num_key_value_heads <= MaxGroup}

\* the width of the fused projection of one token, in units of head_dim
FusedWidth(c) ==
    IF c.attention_head_type = "mqa" THEN c.num_heads + 2
    ELSE IF c.attention_head_type = "mha" THEN 3 * c.num_heads
    ELSE c.num_key_value_heads * ((c.num_heads \div c.num_key_value_heads) + 2)

\* the fused projection of token t: each unit of head_dim entries is named by
\* its place in the projection
hidden_states(c, t) == [p \in 1..FusedWidth(c) |-> [tok |-> t, pos |-> p]]

\* x.view(..., n, -1): n rows of equal width
view(x, n) ==
    [g \in 1..n |-> SubSeq(x, (g - 1) * (Len(x) \div n) + 1, g * (Len(x) \div n))]

\* t.reshape(..., -1, head_dim): the rows one after the other
RECURSIVE reshape_rows(_)
reshape_rows(rows) ==
    IF Len(rows) = 0 THEN << >> ELSE Head(rows) \o reshape_rows(Tail(rows))

NoHeads == [failed |-> "", query |-> << >>, key |-> << >>, value |-> << >>]

\* _prepare_qkv_for_forward_mha of one token: a row per head, cut in three
prepare_qkv_for_forward_mha(c, x) ==
    LET rows == view(x, c.num_key_value_heads)
    IN [failed |-> "",
        query |-> [g \in 1..Len(rows) |-> rows[g][1]],
        key |-> [g \in 1..Len(rows) |-> rows[g][2]],
        value |-> [g \in 1..Len(rows) |-> rows[g][3]]]

\* key.repeat(1, 1, n, 1) on the head axis: the heads tiled n times
repeat_heads(t, n) == [h \in 1..(Len(t) * n) |-> t[((h - 1) % Len(t)) + 1]]

\* _prepare_qkv_for_forward_gqa of one token: a row per key/value head, cut
\* into its query heads, its key and its value
prepare_qkv_for_forward_gqa(c, x) ==
    LET G == c.num_heads \div c.num_key_value_heads
        rows == view(x, c.num_key_value_heads)
        query == [g \in 1..Len(rows) |-> SubSeq(rows[g], 1, G)]
        key == [g \in 1..Len(rows) |-> rows[g][G + 1]]
        value == [g \in 1..Len(rows) |-> rows[g][G + 2]]
    IN [failed |-> "",
        query |-> reshape_rows(query),
        key |-> repeat_heads(key, G),
        value |-> repeat_heads(value, G)]

\* SBAttention._prepare_qkv_for_forward_mqa
dense_prepare_qkv_for_forward_mqa(c, x) == [NoHeads EXCEPT !.failed = "NotImplementedError"]

\* PaddingFreeSBAttention._prepare_qkv_for_forward_mqa of one token
packed_prepare_qkv_for_forward_mqa(c, x) ==
    [failed |-> "",
     query |-> SubSeq(x, 1, c.num_heads),
     key |-> <<x[c.num_heads + 1]>>,
     value |-> <<x[c.num_heads + 2]>>]

\* _prepare_qkv_for_forward: one preparation per head type
prepare_qkv_for_forward(packed, c, x) ==
    IF c.attention_head_type = "mha" THEN prepare_qkv_for_forward_mha(c, x)
    ELSE IF c.attention_head_type = "gqa" THEN prepare_qkv_for_forward_gqa(c, x)
    ELSE IF packed THEN packed_prepare_qkv_for_forward_mqa(c, x)
    ELSE dense_prepare_qkv_for_forward_mqa(c, x)

\* the heads of every token as the forward hands them to its kernel, or the
\* failure that kept the kernel from running
heads_forward(packed, c, ntok) ==
    LET prep == [t \in 1..ntok |-> prepare_qkv_for_forward(packed, c, hidden_states(c, t))]
    IN IF prep[1].failed # ""
       THEN [failed |-> prep[1].failed, kernel |-> FALSE,
             query |-> << >>, key |-> << >>, value |-> << >>]
       ELSE [failed |-> "", kernel |-> TRUE,
             query |-> [t \in 1..ntok |-> prep[t].query],
             key |-> [t \in 1..ntok |-> prep[t].key],
             value |-> [t \in 1..ntok |-> prep[t].value]]

\* ------------------------------------------ the loss over a sharded vocabulary
MaxShards == 2

ShardWidths == {1, 2}
LossTokens == {1, 2}
LogitVals == {0, 1}

RECURSIVE Pow2(_)
Pow2(n) == IF n = 0 THEN 1 ELSE 2 * Pow2(n - 1)

RECURSIVE ProdSeq(_)
ProdSeq(t) == IF Len(t) = 0 THEN 1 ELSE Head(t) * ProdSeq(Tail(t))

\* torch.cat(ts, dim=-1)
RECURSIVE cat_last(_)
cat_last(ts) == IF Len(ts) = 0 THEN << >> ELSE Head(ts) \o cat_last(Tail(ts))

\* the logits rank r computes for the tokens: its own width columns of the
\* vocabulary
get_lm_logits(full, r, width) ==
    [t \in 1..Len(full) |-> SubSeq(full[t], (r - 1) * width + 1, r * width)]

\* tensor_to_dtensor(x, current_placement=Shard(-1)) followed by
\* dtensor_to_tensor(desired_placement=Replicate()): every rank gets the
\* ranks' local tensors side by side
all_gather(locals) ==
    [t \in 1..Len(locals[1]) |-> cat_last([r \in 1..Len(locals) |-> locals[r][t]])]

\* the logits each rank's model returns: its shard, or the gathered logits
model_logits(full, P, width, output_parallel_lm_logits) ==
    LET locals == [r \in 1..P |-> get_lm_logits(full, r, width)]
    IN IF output_parallel_lm_logits THEN locals
       ELSE [r \in 1..P |-> all_gather(locals)]

\* The cross-entropy sum on the grid: exp(x) is 2^x, and the sum over the
\* tokens of log(sum_v exp(x_tv)) - x_{t,label} is kept as the product of the
\* sums (prod) and the sum of the label logits (lab).
\* F.cross_entropy(logits, labels, reduction="sum") on one rank
cross_entropy(logits, labels) ==
    [prod |-> ProdSeq([t \in 1..Len(logits) |->
                          SumSeq([v \in 1..Len(logits[t]) |-> Pow2(logits[t][v])])]),
     lab |-> SumSeq([t \in 1..Len(logits) |-> logits[t][labels[t]]])]

\* F.cross_entropy under loss_parallel on logits placed Shard(-1) from the
\* ranks' local tensors and replicated labels: every rank sums over its own
\* columns and picks the label's logit if the label falls among them, and
\* the partial results are added over the ranks
sharded_cross_entropy(locals, labels) ==
    [prod |-> ProdSeq([t \in 1..Len(labels) |->
                 SumSeq([r \in 1..Len(locals) |->
                     SumSeq([v \in 1..Len(locals[r][t]) |-> Pow2(locals[r][t][v])])])]),
     lab |-> SumSeq([t \in 1..Len(labels) |->
                 SumSeq([r \in 1..Len(locals) |->
                     LET lo == (r - 1) * Len(locals[r][t])
                     IN IF lo < labels[t] /\ labels[t] <= lo + Len(locals[r][t])
                        THEN locals[r][t][labels[t] - lo]
                        ELSE 0])])]

\* ProcessGroupManager.is_tensor_parallel_enabled()
is_tensor_parallel_enabled(P) == P > 1

\* faulty variant: the model is not asked to keep its logits sharded
output_parallel_lm_logits_unset(P) == FALSE

\* _prepare_model_inputs: batch["output_parallel_lm_logits"] = True under
\* tensor parallelism, absent otherwise
output_parallel_lm_logits(P) == is_tensor_parallel_enabled(P)

\* get_loss up to lm_loss: the cross-entropy sum, sharded under tensor
\* parallelism
get_lm_loss(P, logits, labels) ==
    IF is_tensor_parallel_enabled(P)
    THEN sharded_cross_entropy(logits, labels)
    ELSE cross_entropy(logits[1], labels)

\* the wrapper's forward up to lm_loss, on P tensor-parallel ranks
tp_forward(full, labels, P, width) ==
    get_lm_loss(P, model_logits(full, P, width, output_parallel_lm_logits(P)), labels)

\* ------------------------------------------- the wrapper and its model inputs
MaxBatch == 2
MaxSeqLen == 3

eos_token_id == 0
TokenIds == {eos_token_id, 1}

\* a wrapper configuration: pp = pipeline parallelism enabled, enc_dec = the
\* model is encoder-decoder, pf = use_padding_free_transformer, ram and rpi =
\* reset_attention_mask and reset_position_ids
Configs ==
    [pp : BOOLEAN, enc_dec : BOOLEAN, pf : BOOLEAN, ram : BOOLEAN, rpi : BOOLEAN,
     micro_batch_size : 1..MaxBatch, sequence_length : 1..MaxSeqLen]

\* torch.arange(start, stop, step)
RECURSIVE arange(_, _, _)
arange(start, stop, step) ==
    IF start >= stop THEN << >> ELSE <<start>> \o arange(start + step, stop, step)

\* t.repeat(n) of a one-dimensional tensor
RECURSIVE repeat(_, _)
repeat(t, n) == IF n = 0 THEN << >> ELSE t \o repeat(t, n - 1)

\* the outcome of a failed assertion, and of a set-up that went through
Failed(msg) == [ok |-> FALSE, failure |-> msg, cu_seqlens |-> None,
                max_seqlen |-> None, position_ids |-> None]

\* reset_parameters: the assertions on the reset flags and the fixed buffers
reset_parameters(cfg) ==
    IF cfg.pf
    THEN IF cfg.rpi /\ ~cfg.ram
         THEN Failed("reset_attention_mask should be specified with reset_position_ids")
         ELSE [ok |-> TRUE, failure |-> "",
               cu_seqlens |->
                   IF ~cfg.ram
                   THEN Some(arange(0, cfg.micro_batch_size * cfg.sequence_length + 1,
                                    cfg.sequence_length))
                   ELSE None,
               max_seqlen |-> IF ~cfg.ram THEN Some(cfg.sequence_length) ELSE None,
               position_ids |->
                   IF ~cfg.rpi
                   THEN Some(repeat(arange(0, cfg.sequence_length, 1), cfg.micro_batch_size))
                   ELSE None]
    ELSE IF cfg.ram
         THEN Failed("reset_attention_mask is only implemented for padding free transformer")
         ELSE IF cfg.rpi
              THEN Failed("reset_position_ids is only implemented for padding free transformer")
              ELSE [ok |-> TRUE, failure |-> "", cu_seqlens |-> None,
                    max_seqlen |-> None, position_ids |-> None]

\* _setup_model: no encoder-decoder model, then reset_parameters
setup_model(cfg) ==
    IF cfg.enc_dec
    THEN Failed("currently encoder_decoder models are not supported for pretraining")
    ELSE reset_parameters(cfg)

\* faulty variant: the constructor without its pipeline-parallel assertions
wrapper_init_no_pp_assert(cfg) == setup_model(cfg)

\* __init__: the base constructor sets the model up, then the two assertions
\* under pipeline parallelism
wrapper_init(cfg) ==
    LET s == setup_model(cfg)
    IN IF ~s.ok THEN s
       ELSE IF cfg.pp /\ cfg.ram
            THEN Failed("reset_attention_mask is not supported with pipeline parallelism")
            ELSE IF cfg.pp /\ cfg.rpi
                 THEN Failed("reset_position_ids is not supported with pipeline parallelism")
                 ELSE s

\* document_end_positions of _prepare_model_inputs: position p (1-based here,
\* p - 1 in the code) ends a document when it holds EOS or closes a row
document_end_positions(input_ids, sequence_length) ==
    [p \in 1..Len(input_ids) |->
        \/ input_ids[p] = eos_token_id
        \/ (p - 1) \in {i \in (sequence_length - 1)..(Len(input_ids) - 1) :
                           (i - (sequence_length - 1)) % sequence_length = 0}]

\* faulty variant: the end positions themselves, without the + 1
RECURSIVE nonzero_only(_, _)
nonzero_only(mask, n) ==
    IF n = 0 THEN << >>
    ELSE nonzero_only(mask, n - 1) \o (IF mask[n] THEN <<n - 1>> ELSE << >>)

\* mask.nonzero()[0] + 1 for a mask over code positions 0..n-1
RECURSIVE nonzero_plus_one(_, _)
nonzero_plus_one(mask, n) ==
    IF n = 0 THEN << >>
    ELSE nonzero_plus_one(mask, n - 1) \o (IF mask[n] THEN <<(n - 1) + 1>> ELSE << >>)

\* cu_seqlens[1:] - cu_seqlens[:-1]
seqlen_of(cu_seqlens) ==
    [s \in 1..(Len(cu_seqlens) - 1) |-> cu_seqlens[s + 1] - cu_seqlens[s]]

\* seqlen.max()
seq_max(t) == CHOOSE m \in {t[x] : x \in 1..Len(t)} : \A x \in 1..Len(t) : t[x] <= m

\* faulty variant: the positions run on across the documents
cat_aranges_running(seqlen) == arange(0, SumSeq(seqlen), 1)

\* torch.cat([torch.arange(0, i, 1) for i in seqlen])
RECURSIVE cat_aranges(_)
cat_aranges(seqlen) ==
    IF seqlen = << >> THEN << >>
    ELSE arange(0, Head(seqlen), 1) \o cat_aranges(Tail(seqlen))

\* _prepare_model_inputs of a set-up wrapper w on input_ids, the rows of the
\* micro-batch one after the other (input_ids.reshape(-1))
prepare_packed_inputs(cfg, w, input_ids) ==
    IF cfg.pf
    THEN IF cfg.ram
         THEN LET cu == <<0>> \o nonzero_plus_one(
                            document_end_positions(input_ids, cfg.sequence_length),
                            Len(input_ids))
                  seqlen == seqlen_of(cu)
              IN [input_ids |-> input_ids, packed |-> TRUE,
                  cu_seqlens |-> cu,
                  max_seqlen |-> seq_max(seqlen),
                  position_ids |-> IF cfg.rpi THEN cat_aranges(seqlen)
                                   ELSE w.position_ids[1]]
         ELSE [input_ids |-> input_ids, packed |-> TRUE,
               cu_seqlens |-> w.cu_seqlens[1],
               max_seqlen |-> w.max_seqlen[1],
               position_ids |-> w.position_ids[1]]
    ELSE [input_ids |-> input_ids, packed |-> FALSE, cu_seqlens |-> << >>,
          max_seqlen |-> 0, position_ids |-> << >>]

\* ------------------------------------------------------------------- state
VARIABLES
    numStages,   \* num_pipeline_stages of this run
    coef,        \* router_aux_loss_coef
    accum,       \* accum[r]: the accumulator of rank r between calls
    inbox,       \* inbox[r]: outputs of stage r-1 in flight to stage r
    nextMb,      \* next micro-batch the first stage will run
    lastCall,    \* what the latest forward call did
    lossCall,    \* what the latest stand-alone loss computation did
    attnCall,    \* what the latest packed attention call computed
    wrapCall,    \* a pretraining wrapper: its construction and its prepared inputs
    sbCall,      \* what the latest SBAttention.forward call did
    headCall,    \* what the latest query/key/value head preparation produced
    tpCall       \* what the latest vocabulary-sharded loss computation did

vars == <<numStages, coef, accum, inbox, nextMb, lastCall, lossCall, attnCall,
          wrapCall, sbCall, headCall, tpCall>>

Ranks == 1..MaxStages

is_pipeline_parallel_enabled == numStages > 1

NoOutput == [kind |-> "none", first |-> "none", aux |-> None, loss |-> None, lm_loss |-> None]

NoCall == [rank |-> 0, mb |-> 0, slot |-> None, xfCache |-> None, addedPrev |-> FALSE,
           log |-> << >>, reads |-> << >>, out |-> NoOutput,
           own |-> 0, exp |-> 0]

NoAttnCall == [total |-> 0, cu_seqlens |-> << >>, max_seqlen |-> 0, sb_remainder |-> FALSE,
               qkv |-> << >>, done |-> FALSE, att |-> << >>, rem |-> << >>, out |-> << >>]

NoLossCall == [fn |-> "none", lm_loss |-> 0, aux |-> 0, g |-> 0, out |-> NoOutput,
               grad |-> [lm_loss |-> 0, aux_loss |-> 0]]

NoPrepared == [input_ids |-> << >>, packed |-> FALSE, cu_seqlens |-> << >>,
               max_seqlen |-> 0, position_ids |-> << >>]

NoWrapCall == [cfg |-> [pp |-> FALSE, enc_dec |-> FALSE, pf |-> FALSE, ram |-> FALSE,
                        rpi |-> FALSE, micro_batch_size |-> 0, sequence_length |-> 0],
               status |-> "none", w |-> Failed(""), prepared |-> FALSE,
               batch |-> NoPrepared]

NoSbCall == [cache |-> None, seq |-> << >>, new |-> << >>, dtype |-> "float32",
             sb_remainder |-> FALSE, res |-> NoResult]

NoHeadCall == [packed |-> FALSE,
               cfg |-> [attention_head_type |-> "none", num_heads |-> 0,
                        num_key_value_heads |-> 0],
               ntok |-> 0, done |-> FALSE,
               res |-> [failed |-> "", kernel |-> FALSE, query |-> << >>,
                        key |-> << >>, value |-> << >>]]

NoTpCall == [P |-> 0, width |-> 0, full |-> << >>, labels |-> << >>, done |-> FALSE,
             lm_loss |-> [prod |-> 0, lab |-> 0]]

Init ==
    /\ numStages \in 1..MaxStages
    \* the wrapper's forward reads the coefficient only without pipelining
    \* (get_loss, pretraining.py 114-115): one value stands for all with it
    /\ coef \in IF numStages = 1 THEN CoefVals ELSE {1}
    /\ accum = [r \in Ranks |-> 0]
    /\ inbox = [r \in Ranks |-> << >>]
    /\ nextMb = 1
    /\ lastCall = NoCall
    /\ lossCall = NoLossCall
    /\ wrapCall = NoWrapCall
    /\ sbCall = NoSbCall
    /\ headCall = NoHeadCall
    /\ tpCall = NoTpCall
    /\ attnCall = NoAttnCall

\* One call of the wrapper's forward on rank r for micro-batch mb.  slot is
\* the prev_aux_loss argument, expIn the sum of the local totals of the
\* earlier stages of mb (history, kept beside the message), inb the inbox
\* once the call's input has been taken from it.
Call(r, mb, slot, expIn, ts, ce, mult, inb) ==
    LET pp == is_pipeline_parallel_enabled
        first == (r = 1)
        last == (r = numStages)
        res == wrapper_forward(pp, first, last, slot, ts, ce, mult, coef, NewCall(accum[r]))
    IN /\ accum' = [accum EXCEPT ![r] = res.st.acc]
       /\ lastCall' = [rank |-> r, mb |-> mb, slot |-> slot, xfCache |-> res.xfCache,
                       addedPrev |-> res.addedPrev, log |-> res.st.log,
                       reads |-> res.st.reads, out |-> res.out,
                       own |-> SumSeq(ts) + (IF pp /\ ~first THEN slot[1] ELSE 0),
                       exp |-> expIn + SumSeq(ts)]
       /\ inbox' = IF pp /\ ~last
                   THEN [inb EXCEPT ![r + 1] =
                            Append(@, [mb |-> mb, aux |-> res.out.aux[1],
                                       exp |-> expIn + SumSeq(ts)])]
                   ELSE inb

\* no pipelining: one rank, the slot is an optional cache
ForwardSingle ==
    /\ ~is_pipeline_parallel_enabled
    /\ nextMb <= MaxMicroBatches
    /\ \E slot \in {None} \cup {Some(c) : c \in CacheVals}, ts \in LayerSeqs,
          ce \in CeVals, mult \in MultVals :
          Call(1, nextMb, slot, 0, ts, ce, mult, inbox)
    /\ nextMb' = nextMb + 1
    /\ UNCHANGED <<numStages, coef, lossCall, attnCall, wrapCall, sbCall, headCall,
                 tpCall>>

\* first pipeline stage: no carried input (get_dummy_input_tensor, main.py 113)
ForwardFirst ==
    /\ is_pipeline_parallel_enabled
    /\ nextMb <= MaxMicroBatches
    /\ \E ts \in LayerSeqs : Call(1, nextMb, None, 0, ts, 0, 1, inbox)
    /\ nextMb' = nextMb + 1
    /\ UNCHANGED <<numStages, coef, lossCall, attnCall, wrapCall, sbCall, headCall,
                 tpCall>>

\* a later stage runs the oldest output of its predecessor
ForwardRelay(r) ==
    /\ is_pipeline_parallel_enabled
    /\ r \in 2..numStages
    /\ inbox[r] # << >>
    /\ LET msg == Head(inbox[r])
       IN \E ts \in LayerSeqs :
            Call(r, msg.mb, Some(msg.aux), msg.exp, ts, 0, 1,
                 [inbox EXCEPT ![r] = Tail(@)])
    /\ UNCHANGED <<numStages, coef, nextMb, lossCall, attnCall, wrapCall, sbCall, headCall,
                 tpCall>>

Next ==
    \/ ForwardSingle
    \/ ForwardFirst
    \/ \E r \in Ranks : ForwardRelay(r)

Spec == Init /\ [][Next]_vars

\* ------------------------------------------- the loss functions on their own
\* get_loss and the model's own loss are public entry points: here they are
\* called with whatever total the layers of the running pass have left in
\* the accumulator of rank 1.

InitLoss ==
    /\ numStages = 1
    /\ coef \in CoefVals
    /\ accum = [r \in Ranks |-> 0]
    /\ inbox = [r \in Ranks |-> << >>]
    /\ nextMb = 1
    /\ lastCall = NoCall
    /\ lossCall = NoLossCall
    /\ wrapCall = NoWrapCall
    /\ sbCall = NoSbCall
    /\ headCall = NoHeadCall
    /\ tpCall = NoTpCall
    /\ attnCall = NoAttnCall

\* an MoE layer adds its auxiliary loss
LayerAdds ==
    /\ \E v \in AuxVals :
         /\ accum[1] + v <= MaxPending
         /\ accum' = [accum EXCEPT ![1] = add_aux_loss(NewCall(@), v).acc]
    /\ UNCHANGED <<numStages, coef, inbox, nextMb, lastCall, lossCall, attnCall, wrapCall, sbCall, headCall,
                 tpCall>>

\* get_loss(model_outputs, labels, lm_loss_multiplier), then loss.backward
CallGetLoss ==
    /\ \E ce \in CeVals, mult \in MultVals, g \in GradVals :
         LET res == get_loss(NewCall(accum[1]), ce, mult, coef)
             aux == Drained(res.st)
         IN /\ accum' = [accum EXCEPT ![1] = res.st.acc]
            /\ lossCall' = [fn |-> "get_loss", lm_loss |-> ce * mult, aux |-> aux,
                            g |-> g, out |-> res.out,
                            grad |-> combine_backward(aux, coef, g)]
    /\ UNCHANGED <<numStages, coef, inbox, nextMb, lastCall, attnCall, wrapCall, sbCall, headCall,
                 tpCall>>

\* the model called with labels and no pipelining, then loss.backward
CallModelForward ==
    /\ \E ce \in CeVals, g \in GradVals, ts \in LayerSeqs :
         LET res == model_forward(FALSE, TRUE, TRUE, None, ts, Some(ce), coef,
                                  NewCall(accum[1]))
             aux == Drained(res.st)
         IN /\ accum' = [accum EXCEPT ![1] = res.st.acc]
            /\ lossCall' = [fn |-> "model_forward", lm_loss |-> ce, aux |-> aux,
                            g |-> g, out |-> res.out,
                            grad |-> forward_loss_backward(Some(ce), aux, coef, g)]
    /\ UNCHANGED <<numStages, coef, inbox, nextMb, lastCall, attnCall, wrapCall, sbCall, headCall,
                 tpCall>>

NextLoss == LayerAdds \/ CallGetLoss \/ CallModelForward

SpecLoss == InitLoss /\ [][NextLoss]_vars

\* ------------------------------------------------ packed attention on its own
\* offsets of a packed batch of T tokens in at most MaxSegments sub-sequences:
\* strictly increasing from 0 to T
RECURSIVE Offsets(_, _)
Offsets(T, n) ==
    IF n = 1 THEN {<<0, T>>}
    ELSE Offsets(T, n - 1) \cup
         {c \in [1..(n + 1) -> 0..T] :
             /\ c[1] = 0
             /\ c[n + 1] = T
             /\ \A x \in 1..n : c[x] < c[x + 1]}

MaxSegLen(cu) ==
    CHOOSE m \in 1..cu[Len(cu)] :
        /\ \E s \in 1..(Len(cu) - 1) : cu[s + 1] - cu[s] = m
        /\ \A s \in 1..(Len(cu) - 1) : cu[s + 1] - cu[s] <= m

\* a packed batch and its metadata, as _prepare_model_inputs hands them on
InitAttn ==
    /\ numStages = 1
    /\ coef = 0
    /\ accum = [r \in Ranks |-> 0]
    /\ inbox = [r \in Ranks |-> << >>]
    /\ nextMb = 1
    /\ lastCall = NoCall
    /\ lossCall = NoLossCall
    /\ wrapCall = NoWrapCall
    /\ sbCall = NoSbCall
    /\ headCall = NoHeadCall
    /\ tpCall = NoTpCall
    /\ \E T \in 1..MaxTokens, sb_remainder \in BOOLEAN :
         \E cu \in Offsets(T, MaxSegments), qkv \in [0..(T - 1) -> Projected] :
            attnCall = [NoAttnCall EXCEPT !.total = T, !.cu_seqlens = cu,
                                         !.max_seqlen = MaxSegLen(cu),
                                         !.sb_remainder = sb_remainder, !.qkv = qkv]

\* one call of PaddingFreeSBAttention.forward on the packed batch
PackedAttention ==
    /\ ~attnCall.done
    /\ attnCall.total > 0
    /\ LET res == padding_free_forward(attnCall.qkv, attnCall.total, attnCall.cu_seqlens,
                                       attnCall.max_seqlen, attnCall.sb_remainder, 1)
       IN attnCall' = [attnCall EXCEPT !.done = TRUE, !.att = res.att,
                                       !.rem = res.rem, !.out = res.out]
    /\ UNCHANGED <<numStages, coef, accum, inbox, nextMb, lastCall, lossCall, wrapCall, sbCall, headCall,
                 tpCall>>

NextAttn == PackedAttention

SpecAttn == InitAttn /\ [][NextAttn]_vars

\* ------------------------------------ the wrapper's construction and inputs
\* the pipeline, the loss and the attention calls at rest
PipelineIdle ==
    /\ numStages = 1
    /\ coef = 0
    /\ accum = [r \in Ranks |-> 0]
    /\ inbox = [r \in Ranks |-> << >>]
    /\ nextMb = 1
    /\ lastCall = NoCall
    /\ lossCall = NoLossCall

pipeVars == <<numStages, coef, accum, inbox, nextMb, lastCall, lossCall>>

\* a configuration handed to the constructor
InitWrap ==
    /\ PipelineIdle
    /\ attnCall = NoAttnCall
    /\ sbCall = NoSbCall
    /\ headCall = NoHeadCall
    /\ tpCall = NoTpCall
    /\ \E cfg \in Configs : wrapCall = [NoWrapCall EXCEPT !.cfg = cfg, !.status = "new"]

\* ModelWrapperForPretraining(...)
Construct ==
    /\ wrapCall.status = "new"
    /\ LET w == wrapper_init(wrapCall.cfg)
       IN wrapCall' = [wrapCall EXCEPT !.w = w,
                                       !.status = IF w.ok THEN "ok" ELSE "failed"]
    /\ UNCHANGED <<pipeVars, attnCall, sbCall, headCall, tpCall>>

\* _prepare_model_inputs on a micro-batch of the configured shape
PrepareInputs ==
    /\ wrapCall.status = "ok"
    /\ ~wrapCall.prepared
    /\ \E input_ids \in [1..(wrapCall.cfg.micro_batch_size * wrapCall.cfg.sequence_length)
                             -> TokenIds] :
         wrapCall' = [wrapCall EXCEPT
                         !.prepared = TRUE,
                         !.batch = prepare_packed_inputs(wrapCall.cfg, wrapCall.w, input_ids)]
    /\ UNCHANGED <<pipeVars, attnCall, sbCall, headCall, tpCall>>

NextWrap == Construct \/ PrepareInputs

SpecWrap == InitWrap /\ [][NextWrap]_vars

\* --------------------------------------------- dense attention with a cache
\* a layer with or without a cache, before its first call
InitSB ==
    /\ PipelineIdle
    /\ attnCall = NoAttnCall
    /\ wrapCall = NoWrapCall
    /\ headCall = NoHeadCall
    /\ tpCall = NoTpCall
    /\ \E cache \in {None, Some(<< >>)}, dtype \in Dtypes, sb_remainder \in BOOLEAN :
         sbCall = [NoSbCall EXCEPT !.cache = cache, !.dtype = dtype,
                                   !.sb_remainder = sb_remainder]

\* one call of SBAttention.forward on m new tokens; the cache keeps what the
\* call appended, whether or not the call went through, and a failed
\* assertion ends the run
SBForward ==
    /\ sbCall.res.aborted = ""
    /\ \E m \in 1..MaxDecode :
         /\ Len(sbCall.seq) + m <= MaxDecode
         /\ \E new \in [1..m -> DecodeTokens] :
              LET f == sb_forward(sbCall.cache, new, sbCall.sb_remainder, 1, sbCall.dtype)
              IN sbCall' = [sbCall EXCEPT
                               !.cache = f.cache,
                               !.seq = IF f.cache = None THEN @ ELSE @ \o new,
                               !.new = new,
                               !.res = f.res]
    /\ UNCHANGED <<pipeVars, attnCall, wrapCall, headCall, tpCall>>

NextSB == SBForward

SpecSB == InitSB /\ [][NextSB]_vars

\* ------------------------------------------- the heads handed to the kernels
\* an attention layer, dense or packed, of some head type, and its tokens
InitHeads ==
    /\ PipelineIdle
    /\ attnCall = NoAttnCall
    /\ wrapCall = NoWrapCall
    /\ sbCall = NoSbCall
    /\ tpCall = NoTpCall
    /\ \E packed \in BOOLEAN, c \in HeadConfigs, ntok \in 1..MaxSeqLen :
         headCall = [NoHeadCall EXCEPT !.packed = packed, !.cfg = c, !.ntok = ntok]

\* SBAttention.forward up to its kernel
DenseForward ==
    /\ ~headCall.done
    /\ headCall.ntok > 0
    /\ ~headCall.packed
    /\ headCall' = [headCall EXCEPT !.done = TRUE,
                                    !.res = heads_forward(FALSE, headCall.cfg, headCall.ntok)]
    /\ UNCHANGED <<pipeVars, attnCall, wrapCall, sbCall, tpCall>>

\* PaddingFreeSBAttention.forward up to its kernel
PackedForward ==
    /\ ~headCall.done
    /\ headCall.ntok > 0
    /\ headCall.packed
    /\ headCall' = [headCall EXCEPT !.done = TRUE,
                                    !.res = heads_forward(TRUE, headCall.cfg, headCall.ntok)]
    /\ UNCHANGED <<pipeVars, attnCall, wrapCall, sbCall, tpCall>>

NextHeads == DenseForward \/ PackedForward

SpecHeads == InitHeads /\ [][NextHeads]_vars

\* ---------------------------------------------- the loss on sharded logits
\* logits over a vocabulary of P shards of equal width, and labels
InitTP ==
    /\ PipelineIdle
    /\ attnCall = NoAttnCall
    /\ wrapCall = NoWrapCall
    /\ sbCall = NoSbCall
    /\ headCall = NoHeadCall
    /\ \E P \in 1..MaxShards, width \in ShardWidths, n \in LossTokens :
         \E full \in [1..n -> [1..(P * width) -> LogitVals]],
            labels \in [1..n -> 1..(P * width)] :
            tpCall = [NoTpCall EXCEPT !.P = P, !.width = width, !.full = full,
                                      !.labels = labels]

\* forward and get_loss on the P ranks
ShardedLoss ==
    /\ ~tpCall.done
    /\ tpCall.P > 0
    /\ tpCall' = [tpCall EXCEPT !.done = TRUE,
                                !.lm_loss = tp_forward(tpCall.full, tpCall.labels,
                                                       tpCall.P, tpCall.width)]
    /\ UNCHANGED <<pipeVars, attnCall, wrapCall, sbCall, headCall>>

NextTP == ShardedLoss

SpecTP == InitTP /\ [][NextTP]_vars

\* =================================================================== claims
Called == lastCall.rank # 0
OnLastStage == lastCall.rank = numStages
OnFirstStage == lastCall.rank = 1

\* C1: with S stages contributing local totals t_1..t_S to one micro-batch,
\* the value the last stage reads from the accumulator (after adding the
\* carried value) is t_1 + ... + t_S; S = 1 is the run without pipelining.
C1_RelaySum == OnLastStage => lastCall.reads[1] = lastCall.exp

C1_Witness ==
    /\ numStages = MaxStages
    /\ OnLastStage
    /\ lastCall.slot # None
    /\ lastCall.slot[1] >= 2
    /\ lastCall.reads[1] = lastCall.slot[1] + 1

\* C2: the first drain of a call returns the sum of the additions a_1..a_k
\* the call made, and a second drain with no addition in between returns 0.
C2_DrainSum ==
    Called =>
        /\ lastCall.reads[1] = SumSeq(lastCall.log)
        /\ Len(lastCall.reads) >= 2 => lastCall.reads[2] = 0

C2_Witness ==
    /\ Called
    /\ Len(lastCall.log) >= 1
    /\ SumSeq(lastCall.log) >= 1
    /\ Len(lastCall.reads) = 2
    /\ lastCall.reads[2] = 0

\* C3 (as claimed): every forward pass driven by the wrapper drains the
\* accumulator exactly once.
C3_DrainedOnce == Called => Len(lastCall.reads) = 1

\* C4: the total read in a pass is made of the additions of that pass only
\* (its layers plus the carried value it received), whatever earlier passes
\* on the rank added, and nothing is left in the accumulator between passes.
C4_NoResidue ==
    /\ \A r \in Ranks : accum[r] = 0
    /\ Called => lastCall.reads[1] = lastCall.own

\* the first stage has run a second micro-batch that added nothing after a
\* first one that added something
C4_Witness ==
    /\ OnFirstStage
    /\ lastCall.mb = 2
    /\ lastCall.reads[1] = 0
    /\ Len(inbox[2]) = 2
    /\ inbox[2][1].aux > 0

C8_SlotUse ==
    Called =>
        IF is_pipeline_parallel_enabled
        THEN /\ lastCall.xfCache = None
             /\ lastCall.addedPrev <=> ~OnFirstStage
             /\ lastCall.addedPrev => lastCall.log[Len(lastCall.log)] = lastCall.slot[1]
        ELSE /\ lastCall.xfCache = lastCall.slot
             /\ ~lastCall.addedPrev

C8_Witness ==
    /\ is_pipeline_parallel_enabled
    /\ Called
    /\ ~OnFirstStage
    /\ lastCall.slot # None
    /\ lastCall.slot[1] > 0
    /\ lastCall.addedPrev
    /\ lastCall.xfCache = None

\* C9: when micro-batches overlap across stages, the scalar travelling with a
\* micro-batch, and so the one that reaches the last stage, is the sum of the
\* contributions made on that micro-batch's own path.
C9_OwnPathOnly ==
    \A r \in Ranks : \A i \in 1..Len(inbox[r]) : inbox[r][i].aux = inbox[r][i].exp

\* micro-batch 2 has run on the first stage while micro-batch 1, with a
\* different total, is waiting for the last stage
C9_Witness ==
    /\ numStages = MaxStages
    /\ Len(inbox[numStages]) >= 1
    /\ inbox[numStages][1].mb = 1
    /\ inbox[numStages][1].aux = 0
    /\ Len(inbox[2]) >= 1
    /\ inbox[2][1].mb = 2
    /\ inbox[2][1].aux > 0

\* C5 (as claimed): for every lm_loss, aux_loss (zero included) and
\* coefficient, get_loss returns lm_loss + coefficient * aux_loss and its
\* backward gives g to lm_loss and coefficient * g to aux_loss.
C5_LinearAlways ==
    lossCall.fn = "get_loss" =>
        /\ lossCall.out.loss = Some(lossCall.lm_loss + coef * lossCall.aux)
        /\ lossCall.grad = [lm_loss |-> lossCall.g, aux_loss |-> coef * lossCall.g]

\* C5 (amended): get_loss returns lm_loss + coefficient * aux_loss for every
\* input; its backward gives g to lm_loss, and coefficient * g to aux_loss
\* when aux_loss is not zero; when aux_loss is zero the loss is lm_loss
\* itself and no gradient reaches aux_loss.
C5_LinearNonZero ==
    lossCall.fn = "get_loss" =>
        /\ lossCall.out.loss = Some(lossCall.lm_loss + coef * lossCall.aux)
        /\ lossCall.grad.lm_loss = lossCall.g
        /\ lossCall.grad.aux_loss = IF lossCall.aux = 0 THEN 0 ELSE coef * lossCall.g

C5_Witness ==
    /\ lossCall.fn = "get_loss"
    /\ lossCall.aux = 2
    /\ coef = 2
    /\ lossCall.g = 2
    /\ lossCall.grad.aux_loss = 4

\* C6: with coefficient 0 the combined loss is the language-modeling loss
\* for every auxiliary value, and the gradient reaching aux_loss is zero.
C6_ZeroCoef ==
    (coef = 0 /\ lossCall.fn # "none") =>
        /\ lossCall.out.loss = Some(lossCall.lm_loss)
        /\ lossCall.grad.aux_loss = 0
        /\ lossCall.grad.lm_loss = lossCall.g

C6_Witness ==
    /\ coef = 0
    /\ lossCall.fn = "get_loss"
    /\ lossCall.aux > 0
    /\ lossCall.out.loss = Some(lossCall.lm_loss)

\* C10: in the packed path every query token has weight exactly zero on every
\* key position outside its own sub-sequence; with cu_seqlens = [0, 3, 7] and
\* max_seqlen = 4 the queries 0..2 have zero weight on the keys 3..6.
C10_NoCrossBoundary ==
    attnCall.done =>
    /\ \A i, j \in 0..(attnCall.total - 1) :
          SegOf(attnCall.cu_seqlens, i) # SegOf(attnCall.cu_seqlens, j)
              => attnCall.att[i][j] = 0
    /\ (attnCall.cu_seqlens = <<0, 3, 7>> /\ attnCall.max_seqlen = 4) =>
          \A i \in 0..2, j \in 3..6 : attnCall.att[i][j] = 0

C10_Witness ==
    /\ attnCall.done
    /\ attnCall.cu_seqlens = <<0, 3, 7>>
    /\ attnCall.max_seqlen = 4
    /\ attnCall.att[2][1] > 0
    /\ attnCall.att[2][3] = 0
    /\ attnCall.att[4][3] > 0
    /\ attnCall.att[4][2] = 0

\* C11: every cu_seqlens that _prepare_model_inputs passes on in packed mode,
\* the fixed buffer as well as the one derived from the EOS tokens, starts
\* at 0, is strictly increasing and ends at micro_batch_size * sequence_length.
C11_Offsets ==
    (wrapCall.prepared /\ wrapCall.batch.packed) =>
        LET cu == wrapCall.batch.cu_seqlens
        IN /\ Len(cu) >= 2
           /\ cu[1] = 0
           /\ \A x \in 1..(Len(cu) - 1) : cu[x] < cu[x + 1]
           /\ cu[Len(cu)] = wrapCall.cfg.micro_batch_size * wrapCall.cfg.sequence_length

\* two rows of three tokens, the first ending in two EOS tokens, the second
\* ending in another token
C11_Witness ==
    /\ wrapCall.prepared
    /\ wrapCall.cfg.ram
    /\ wrapCall.batch.input_ids = <<1, eos_token_id, eos_token_id, eos_token_id, 1, 1>>
    /\ wrapCall.batch.cu_seqlens = <<0, 2, 3, 4, 6>>

\* the configurations the claim lists as incompatible
Incompatible(cfg) ==
    \/ cfg.pp /\ (cfg.ram \/ cfg.rpi)
    \/ cfg.enc_dec
    \/ cfg.rpi /\ ~cfg.ram
    \/ (cfg.ram \/ cfg.rpi) /\ ~cfg.pf

\* C15: the constructor fails for exactly the incompatible configurations
\* (pipeline parallelism with a reset feature, an encoder-decoder model,
\* reset_position_ids without reset_attention_mask, a reset feature without
\* the padding-free transformer), a failed construction leaves no wrapper to
\* prepare inputs with, and every other configuration is accepted.
C15_FailFast ==
    /\ wrapCall.status = "failed" => (Incompatible(wrapCall.cfg) /\ ~wrapCall.prepared)
    /\ wrapCall.status = "ok" => ~Incompatible(wrapCall.cfg)

\* pipeline parallelism with reset_attention_mask on an otherwise valid
\* padding-free configuration has been rejected
C15_Witness ==
    /\ wrapCall.status = "failed"
    /\ wrapCall.cfg.pp /\ wrapCall.cfg.ram /\ wrapCall.cfg.pf /\ ~wrapCall.cfg.enc_dec
    /\ wrapCall.w.failure = "reset_attention_mask is not supported with pipeline parallelism"

\* a call went through the decode step
Decoded == sbCall.res.path = "decoding_stickbreaking" /\ sbCall.res.aborted = ""

\* the whole sequence fed so far, run through SBAttention.forward in one call
\* on an empty cache
FullSequence ==
    sb_forward(Some(<< >>), sbCall.seq, sbCall.sb_remainder, 1, sbCall.dtype).res

\* C12 (as claimed): the decode step on the last token, against the cached
\* keys and values of the whole sequence, gives the output and the remainder
\* of the last query row of the full-sequence computation.
C12_DecodeIsLastRow ==
    Decoded =>
        /\ sbCall.res.out[1] = FullSequence.out[Len(sbCall.seq)]
        /\ sbCall.res.rem[1] = FullSequence.rem[Len(sbCall.seq)]

\* the call was routed to the decode step: a cache, and fewer queries than keys
RoutedToDecode ==
    /\ sbCall.res.path # "none"
    /\ sbCall.cache # None
    /\ Len(sbCall.new) # Len(sbCall.cache[1])

\* C13: a call routed to the decode step with more than one query token
\* aborts on the one-query assertion and returns nothing; a call with one
\* query token is not rejected.
C13_OneQuery ==
    /\ (RoutedToDecode /\ Len(sbCall.new) > 1) =>
          /\ sbCall.res.aborted = "q.size(2) == 1"
          /\ sbCall.res.out = << >> /\ sbCall.res.att = << >> /\ sbCall.res.rem = << >>
    /\ (sbCall.cache # None /\ Len(sbCall.new) = 1) =>
          /\ sbCall.res.aborted = ""
          /\ Len(sbCall.res.out) = 1

\* two tokens are fed to a layer whose cache holds one token already
C13_Witness ==
    /\ RoutedToDecode
    /\ Len(sbCall.new) = 2
    /\ Len(sbCall.cache[1]) = 3
    /\ sbCall.res.aborted = "q.size(2) == 1"

\* C17: in every query row the kernel produces, every weight is >= 0, the
\* weights and the remainder add up to 1, and the remainder is in [0, 1]
\* (numerators over 4^T).
C17_Remainder ==
    (sbCall.res.path # "none" /\ sbCall.res.aborted = "") =>
        \A x \in 1..Len(sbCall.res.att) :
            /\ \A j \in 1..Len(sbCall.res.att[x]) : sbCall.res.att[x][j] >= 0
            /\ SumSeq(sbCall.res.att[x]) + sbCall.res.rem[x] = Pow4(sbCall.res.T)
            /\ sbCall.res.rem[x] >= 0
            /\ sbCall.res.rem[x] <= Pow4(sbCall.res.T)

\* a decode step over two earlier keys, both with score 1: weights 3/16 and
\* 3/4, remainder 1/16
C17_Witness ==
    /\ Decoded
    /\ sbCall.res.T = 3
    /\ sbCall.res.att = <<(<<12, 48>>)>>
    /\ sbCall.res.rem = <<4>>

\* the sequence fed so far, positions from 0
Seq0 == [i \in 0..(Len(sbCall.seq) - 1) |-> sbCall.seq[i + 1]]

\* the weight the decode step gives key j (from 0) of the T keys: the own
\* key, the last one, is not among the weights
DecodeWeight(j) ==
    IF j + 1 <= Len(sbCall.res.att[1]) THEN sbCall.res.att[1][j + 1] ELSE 0

LowPrecision == sbCall.dtype # "float32"

\* C19 (as claimed): with inputs of lower precision every intermediate of the
\* decode step, from the scores to the sum of the weights, is float32, and
\* only the final result is in the input dtype.
C19_WideThroughout ==
    (Decoded /\ LowPrecision) =>
        LET d == sbCall.res.dtypes
        IN /\ d.logits = "float32" /\ d.log_z = "float32" /\ d.log_beta = "float32"
           /\ d.re_cum_log_beta = "float32" /\ d.log_att = "float32"
           /\ d.att = "float32" /\ d.att_sum = "float32"
           /\ d.out = sbCall.dtype /\ d.rem = sbCall.dtype

\* C19 (amended): with inputs of lower precision the query, the key and the
\* scores are float32; the two log-sigmoid terms are converted to the input
\* dtype as soon as they are computed, and the reverse cumulative sum, the
\* log-weights, the weights, their sum, the output and the remainder are all
\* in the input dtype.
C19_WideScoresOnly ==
    Decoded =>
        LET d == sbCall.res.dtypes
        IN /\ d.q = "float32" /\ d.k = "float32" /\ d.logits = "float32"
           /\ d.log_z = sbCall.dtype /\ d.log_beta = sbCall.dtype
           /\ d.re_cum_log_beta = sbCall.dtype /\ d.log_att = sbCall.dtype
           /\ d.att = sbCall.dtype /\ d.att_sum = sbCall.dtype
           /\ d.out = sbCall.dtype /\ d.rem = sbCall.dtype

C19_Witness ==
    /\ Decoded
    /\ sbCall.dtype = "bfloat16"
    /\ sbCall.res.dtypes.logits = "float32"
    /\ sbCall.res.dtypes.log_z = "bfloat16"
    /\ sbCall.res.dtypes.att_sum = "bfloat16"

\* C14 (as claimed): for every head type, in the dense and in the packed
\* path, either the keys and the values handed to the kernel have as many
\* heads as the queries, or the call fails before the kernel runs.
C14_HeadsMatchOrFail ==
    headCall.done =>
        \/ headCall.res.failed # "" /\ ~headCall.res.kernel
        \/ /\ headCall.res.kernel
           /\ \A t \in 1..headCall.ntok :
                 /\ Len(headCall.res.key[t]) = Len(headCall.res.query[t])
                 /\ Len(headCall.res.value[t]) = Len(headCall.res.query[t])

\* the place in the fused projection of the key of key/value head g (from 0)
\* under grouped-query attention
KeyPlace(c, g) ==
    g * ((c.num_heads \div c.num_key_value_heads) + 2)
        + (c.num_heads \div c.num_key_value_heads) + 1

\* the key/value head whose row of the fused projection holds place p
GroupOfPlace(c, p) == (p - 1) \div ((c.num_heads \div c.num_key_value_heads) + 2)

\* C20 (as claimed): under grouped-query attention with K > 1 key/value heads
\* and G > 1 query heads for each, query head h, cut from row h div G of the
\* fused projection, is at the index that holds key/value head h div G.
C20_QueryMeetsOwnGroup ==
    (/\ headCall.done
     /\ headCall.cfg.attention_head_type = "gqa"
     /\ headCall.cfg.num_key_value_heads > 1
     /\ headCall.cfg.num_heads \div headCall.cfg.num_key_value_heads > 1) =>
        LET c == headCall.cfg
            G == c.num_heads \div c.num_key_value_heads
        IN \A t \in 1..headCall.ntok : \A h \in 0..(c.num_heads - 1) :
              /\ GroupOfPlace(c, headCall.res.query[t][h + 1].pos) = h \div G
              /\ headCall.res.key[t][h + 1].pos = KeyPlace(c, h \div G)
              /\ headCall.res.value[t][h + 1].pos = KeyPlace(c, h \div G) + 1

\* two cross-entropy sums of the grid are the same number
SameLoss(a, b) == a.prod * Pow2(b.lab) = b.prod * Pow2(a.lab)

\* C16: for P shards of equal width the cross-entropy sum of get_loss, on
\* logits placed Shard(-1) and replicated labels, is the cross-entropy sum
\* one rank computes on the unsharded logits and the same labels.
C16_ShardedEqualsUnsharded ==
    tpCall.done => SameLoss(tpCall.lm_loss, cross_entropy(tpCall.full, tpCall.labels))

\* two shards of two columns, two tokens, the first labelled in the second
\* shard, the second in the first
C16_Witness ==
    /\ tpCall.done
    /\ tpCall.P = 2 /\ tpCall.width = 2
    /\ tpCall.full = <<(<<0, 1, 1, 0>>), (<<1, 0, 0, 0>>)>>
    /\ tpCall.labels = <<3, 1>>
    /\ tpCall.lm_loss = [prod |-> 30, lab |-> 2]

\* a packed micro-batch has been prepared with reset_attention_mask
ResetPrepared == wrapCall.prepared /\ wrapCall.batch.packed /\ wrapCall.cfg.ram

\* the positions (from 0) after which a document ends: an EOS token, or the
\* last token of a row
RunEnds ==
    {p \in 0..(Len(wrapCall.batch.input_ids) - 1) :
        \/ wrapCall.batch.input_ids[p + 1] = eos_token_id
        \/ (p + 1) % wrapCall.cfg.sequence_length = 0}

\* C21: with reset_attention_mask in packed mode the segments of cu_seqlens
\* are exactly the maximal runs that end at an EOS token or at the last token
\* of a row; no segment spans two rows; max_seqlen is the length of the
\* longest segment and at most sequence_length; and with reset_position_ids
\* the position id of every token is its offset from the start of its segment.
C21_Segments ==
    ResetPrepared =>
        LET cu == wrapCall.batch.cu_seqlens
            L == wrapCall.cfg.sequence_length
            N == Len(wrapCall.batch.input_ids)
            segs == 1..(Len(cu) - 1)
        IN /\ {cu[x] : x \in 1..Len(cu)} = {0} \cup {p + 1 : p \in RunEnds}
           /\ \A x \in segs : cu[x] < cu[x + 1]
           /\ \A x \in segs : cu[x] \div L = (cu[x + 1] - 1) \div L
           /\ \E x \in segs : wrapCall.batch.max_seqlen = cu[x + 1] - cu[x]
           /\ \A x \in segs : cu[x + 1] - cu[x] <= wrapCall.batch.max_seqlen
           /\ wrapCall.batch.max_seqlen <= L
           /\ wrapCall.cfg.rpi =>
                 /\ Len(wrapCall.batch.position_ids) = N
                 /\ \A p \in 0..(N - 1) :
                       wrapCall.batch.position_ids[p + 1] = p - cu[SegOf(cu, p)]

\* two rows of three tokens with reset_position_ids: an EOS in the middle of
\* the first row, none in the second
C21_Witness ==
    /\ ResetPrepared
    /\ wrapCall.cfg.rpi
    /\ wrapCall.batch.input_ids = <<1, eos_token_id, 1, 1, 1, 1>>
    /\ wrapCall.batch.cu_seqlens = <<0, 2, 3, 6>>
    /\ wrapCall.batch.max_seqlen = 3
    /\ wrapCall.batch.position_ids = <<0, 1, 0, 0, 1, 2>>

====
